---- MODULE Spec2Model ----
(***************************************************************************)
(* A model of gpytorch's LinearKernel and MultitaskKernel                  *)
(* (gpytorch/kernels/linear_kernel.py, gpytorch/kernels/multitask_kernel.py)*)
(*                                                                         *)
(* Tensors are records [kind, shape, data]: shape is the sequence of       *)
(* dimension sizes, data the entries in row-major order.  Entries are      *)
(* integers: the arithmetic is exact, floating-point rounding is not       *)
(* modelled.  A Python exception raised by an operation is the record      *)
(* [kind |-> "error", what |-> ...] that every caller passes on.           *)
(***************************************************************************)
EXTENDS Integers, Sequences, FiniteSets, TLC

\* ------------------------------------------------------------------ bounds
\* Largest num_dimensions a LinearKernel is constructed with.
MaxDim == 2
\* Largest number of rows (x.size(-2)) of an input.
MaxN == 2
\* Largest batch size (x.size(0)) of a 3-dimensional input.
MaxBatch == 2
\* Largest n_tasks a MultitaskKernel is constructed with.
MaxTasks == 2

\* Seeds of the entry patterns of the input tensors.
InputSeeds == {1, 2}
\* Parameter values the optimizer writes: <<variance, offset seed>>.
ParamSettings == {<<2, 1>>}
\* Seeds of the IndexKernel's covar_factor the optimizer may write.
TaskSeeds == {0, 1}

\* ----------------------------------------------------------- tensor values
Tensor(shape, data) == [kind |-> "tensor", shape |-> shape, data |-> data]

Error(what) == [kind |-> "error", what |-> what]

None == [kind |-> "none"]

IsError(r) == r.kind = "error"

Max(a, b) == IF a >= b THEN a ELSE b

RECURSIVE Numel(_)
Numel(shape) ==
  IF shape = <<>> THEN 1 ELSE Head(shape) * Numel(Tail(shape))

\* The multi-index (0-based) of the row-major flat offset k (0-based).
RECURSIVE Unravel(_, _)
Unravel(k, shape) ==
  IF shape = <<>> THEN <<>>
  ELSE LET inner == Numel(Tail(shape))
       IN  <<k \div inner>> \o Unravel(k % inner, Tail(shape))

\* The row-major flat offset (0-based) of a multi-index (0-based).
RECURSIVE Ravel(_, _)
Ravel(idx, shape) ==
  IF shape = <<>> THEN 0
  ELSE Head(idx) * Numel(Tail(shape)) + Ravel(Tail(idx), Tail(shape))

At(t, idx) == t.data[Ravel(idx, t.shape) + 1]

RECURSIVE SumSeq(_)
SumSeq(s) == IF s = <<>> THEN 0 ELSE Head(s) + SumSeq(Tail(s))

\* ------------------------------------------------- torch: broadcasting rules
PadLeft(shape, r) ==
  [i \in 1..r |-> IF i <= r - Len(shape) THEN 1 ELSE shape[i - (r - Len(shape))]]

CanBroadcast(s1, s2) ==
  LET r == Max(Len(s1), Len(s2))
      a == PadLeft(s1, r)
      b == PadLeft(s2, r)
  IN  \A i \in 1..r : a[i] = b[i] \/ a[i] = 1 \/ b[i] = 1

BroadcastShape(s1, s2) ==
  LET r == Max(Len(s1), Len(s2))
      a == PadLeft(s1, r)
      b == PadLeft(s2, r)
  IN  [i \in 1..r |-> IF a[i] = 1 THEN b[i] ELSE a[i]]

\* The index into an operand of `shape` that the index idx of the broadcast
\* result reads: a dimension of size 1 is read at 0.
BIndex(idx, shape) ==
  LET off == Len(idx) - Len(shape)
  IN  [j \in 1..Len(shape) |-> IF shape[j] = 1 THEN 0 ELSE idx[j + off]]

\* a - b with broadcasting; a RuntimeError when the shapes do not broadcast.
Sub(a, b) ==
  IF ~CanBroadcast(a.shape, b.shape) THEN Error("dimension-mismatch")
  ELSE LET S == BroadcastShape(a.shape, b.shape)
           diff(idx) == At(a, BIndex(idx, a.shape)) - At(b, BIndex(idx, b.shape))
       IN  Tensor(S, [k \in 1..Numel(S) |-> diff(Unravel(k - 1, S))])

\* a + b for tensors of one shape.
Add(a, b) == Tensor(a.shape, [k \in 1..Len(a.data) |-> a.data[k] + b.data[k]])

\* t.expand(size): every dimension of t is the target's or 1.
Expand(t, size) ==
  LET src(idx) == At(t, BIndex(idx, t.shape))
  IN  Tensor(size, [k \in 1..Numel(size) |-> src(Unravel(k - 1, size))])

\* torch.equal(a, b): same size and same entries.
TorchEqual(a, b) ==
  /\ a.shape = b.shape
  /\ \A k \in 1..Len(a.data) : a.data[k] = b.data[k]

Swap(s, i, j) ==
  [k \in 1..Len(s) |-> IF k = i THEN s[j] ELSE IF k = j THEN s[i] ELSE s[k]]

\* t.transpose(d0, d1), dimensions counted from 0 as in Python.
Transpose(t, d0, d1) ==
  IF Len(t.shape) <= Max(d0, d1) THEN Error("dimension-out-of-range")
  ELSE LET src(idx) == At(t, Swap(idx, d0 + 1, d1 + 1))
       IN  LET shp == Swap(t.shape, d0 + 1, d1 + 1)
      IN  Tensor(shp, [k \in 1..Numel(shp) |-> src(Unravel(k - 1, shp))])

\* t.squeeze(0): drops dimension 0 when its size is 1.
Squeeze0(t) ==
  IF Len(t.shape) >= 1 /\ t.shape[1] = 1
  THEN Tensor(Tail(t.shape), t.data)
  ELSE t

BatchOf(shape) == SubSeq(shape, 1, Len(shape) - 2)

\* torch.matmul of two tensors of rank >= 2 with equal batch dimensions.
Matmul(l, r) ==
  LET rl == Len(l.shape)
      rr == Len(r.shape)
  IN  IF \/ rl < 2 \/ rr < 2
         \/ BatchOf(l.shape) # BatchOf(r.shape)
         \/ l.shape[rl] # r.shape[rr - 1]
      THEN Error("dimension-mismatch")
      ELSE LET B == BatchOf(l.shape)
               inner == l.shape[rl]
               dot(idx) ==
                 LET bi == SubSeq(idx, 1, Len(B))
                     i  == idx[Len(B) + 1]
                     j  == idx[Len(B) + 2]
                 IN  SumSeq([c \in 1..inner |->
                        At(l, bi \o <<i, c - 1>>) * At(r, bi \o <<c - 1, j>>)])
           IN  LET shp == B \o <<l.shape[rl - 1], r.shape[rr]>>
      IN  Tensor(shp, [k \in 1..Numel(shp) |-> dot(Unravel(k - 1, shp))])

\* ------------------------------------------------ gpytorch.lazy (interface)
\* RootLazyTensor(R) represents R R^T.
RootLazyTensor(root) == [kind |-> "lazy", form |-> "root", args |-> <<root>>]

\* MatmulLazyTensor(A, B) represents A B; factors whose shapes do not
\* multiply are a dimension-mismatch failure of the forward call.
MatmulLazyTensor(left, right) ==
  LET rl == Len(left.shape)
      rr == Len(right.shape)
  IN  IF \/ rl < 2 \/ rr < 2
         \/ BatchOf(left.shape) # BatchOf(right.shape)
         \/ left.shape[rl] # right.shape[rr - 1]
      THEN Error("dimension-mismatch")
      ELSE [kind |-> "lazy", form |-> "matmul", args |-> <<left, right>>]

\* The dense wrapper.
NonLazyVariable(t) == [kind |-> "lazy", form |-> "dense", args |-> <<t>>]

\* lazy + tensor: the lazy matrix whose entries are the sums of the entries.
LazyAdd(lazy, t) == [kind |-> "lazy", form |-> "sum", args |-> <<lazy, t>>]

\* lazy.squeeze(0)
LazySqueeze0(lazy) == [kind |-> "lazy", form |-> "squeeze0", args |-> <<lazy>>]

RECURSIVE LazySize(_)
LazySize(lz) ==
  CASE lz.form = "root" ->
         LET s == lz.args[1].shape
         IN  BatchOf(s) \o <<s[Len(s) - 1], s[Len(s) - 1]>>
    [] lz.form = "matmul" ->
         LET l == lz.args[1].shape
             r == lz.args[2].shape
         IN  BatchOf(l) \o <<l[Len(l) - 1], r[Len(r)]>>
    [] lz.form = "dense" -> lz.args[1].shape
    [] lz.form = "sum" -> LazySize(lz.args[1])
    [] lz.form = "squeeze0" ->
         LET s == LazySize(lz.args[1])
         IN  IF Len(s) >= 1 /\ s[1] = 1 THEN Tail(s) ELSE s
    [] lz.form = "kron" ->
         LET a == LazySize(lz.args[1])
             b == LazySize(lz.args[2])
         IN  BatchOf(b) \o <<a[1] * b[Len(b) - 1], a[2] * b[Len(b)]>>

\* KroneckerProductLazyVariable(A, B) represents A (x) B for a matrix A and a
\* matrix or batch of matrices B; any other factor is a shape-mismatch failure.
KroneckerProductLazyVariable(a, b) ==
  IF Len(LazySize(a)) # 2 \/ Len(LazySize(b)) < 2
  THEN Error("shape-mismatch")
  ELSE [kind |-> "lazy", form |-> "kron", args |-> <<a, b>>]

\* The Kronecker product of the matrix a with each matrix of the batch b.
KronDense(a, b) ==
  LET rb == Len(b.shape)
      n1 == b.shape[rb - 1]
      n2 == b.shape[rb]
      entry(idx) ==
        LET bi == SubSeq(idx, 1, rb - 2)
            p  == idx[rb - 1]
            q  == idx[rb]
        IN  At(a, <<p \div n1, q \div n2>>) * At(b, bi \o <<p % n1, q % n2>>)
  IN  LET shp == BatchOf(b.shape) \o <<a.shape[1] * n1, a.shape[2] * n2>>
      IN  Tensor(shp, [k \in 1..Numel(shp) |-> entry(Unravel(k - 1, shp))])

\* The dense tensor a lazy matrix stands for.
RECURSIVE Evaluate(_)
Evaluate(lz) ==
  CASE lz.form = "root" ->
         LET R == lz.args[1]
         IN  Matmul(R, Transpose(R, Len(R.shape) - 2, Len(R.shape) - 1))
    [] lz.form = "matmul" -> Matmul(lz.args[1], lz.args[2])
    [] lz.form = "dense" -> lz.args[1]
    [] lz.form = "sum" -> Add(Evaluate(lz.args[1]), lz.args[2])
    [] lz.form = "squeeze0" -> Squeeze0(Evaluate(lz.args[1]))
    [] lz.form = "kron" -> KronDense(Evaluate(lz.args[1]), Evaluate(lz.args[2]))

\* ------------------------------------------------------------ LinearKernel
\* torch.zeros(*shape): a negative size is a RuntimeError.
Zeros(shape) ==
  IF \E i \in 1..Len(shape) : shape[i] < 0 THEN Error("negative-dimension")
  ELSE Tensor(shape, [k \in 1..Numel(shape) |-> 0])

\* A Python list of dimension indices.
List(items) == [kind |-> "list", items |-> items]

\* Kernel.__init__(active_dims): the base class keeps the active dimensions.
KernelInit(active_dims) == [active_dims |-> active_dims]

\* A LinearKernel.__init__ that sizes the offset (1, 1, 1) whatever
\* num_dimensions is.
LinearInitScalarOffset(num_dimensions, active_dims) ==
  LET offset == Zeros(<<1, 1, 1>>)
  IN  IF num_dimensions < 0 THEN Error("negative-dimension")
      ELSE [kind        |-> "LinearKernel",
            active_dims |-> active_dims,
            variance    |-> Zeros(<<1>>),
            offset      |-> offset]

\* LinearKernel.__init__
LinearInit(num_dimensions, active_dims) ==
  LET base     == KernelInit(active_dims)
      variance == Zeros(<<1>>)
      offset   == Zeros(<<1, 1, num_dimensions>>)
  IN  IF IsError(offset) THEN offset
      ELSE [kind        |-> "LinearKernel",
            active_dims |-> base.active_dims,
            variance    |-> variance,
            offset      |-> offset]

\* A test that compares the sizes only.
UseRootSizeOnly(a, b) == a.shape = b.shape

\* The test of LinearKernel.forward: x1.size() == x2.size() and torch.equal(x1, x2)
UseRoot(a, b) == a.shape = b.shape /\ TorchEqual(a, b)

\* An addition of the variance to the diagonal only.
AddVarianceDiag(prod, variance) ==
  LET size == LazySize(prod)
      r    == Len(size)
      entry(idx) == IF idx[r - 1] = idx[r] THEN variance.data[1] ELSE 0
  IN  LazyAdd(prod, Tensor(size, [k \in 1..Numel(size) |-> entry(Unravel(k - 1, size))]))

\* prod + self.variance.expand(prod.size())
AddVariance(prod, variance) == LazyAdd(prod, Expand(variance, LazySize(prod)))

\* A forward whose second factor is not transposed.
LinearForwardNoTranspose(self, a, b) ==
  IF UseRoot(a, b)
  THEN LET c == Sub(a, self.offset)
       IN  IF IsError(c) THEN c
           ELSE AddVariance(RootLazyTensor(c), self.variance)
  ELSE LET c1 == Sub(a, self.offset)
           c2 == Sub(b, self.offset)
       IN  IF IsError(c1) THEN c1
           ELSE IF IsError(c2) THEN c2
           ELSE LET prod == MatmulLazyTensor(c1, c2)
                IN  IF IsError(prod) THEN prod
                    ELSE AddVariance(prod, self.variance)

\* LinearKernel.forward(x1, x2)
LinearForward(self, a, b) ==
  IF UseRoot(a, b)
  THEN LET c == Sub(a, self.offset)
       IN  IF IsError(c) THEN c
           ELSE AddVariance(RootLazyTensor(c), self.variance)
  ELSE LET c1 == Sub(a, self.offset)
           c2 == Sub(b, self.offset)
       IN  IF IsError(c1) THEN c1
           ELSE IF IsError(c2) THEN c2
           ELSE LET t == Transpose(c2, 2, 1)
                IN  IF IsError(t) THEN t
                    ELSE LET prod == MatmulLazyTensor(c1, t)
                         IN  IF IsError(prod) THEN prod
                             ELSE AddVariance(prod, self.variance)

\* --------------------------------------------------------- MultitaskKernel
\* tensor.diag() of a vector.
Diag(v) ==
  LET n == v.shape[1]
      entry(idx) == IF idx[1] = idx[2] THEN v.data[idx[1] + 1] ELSE 0
  IN  LET shp == <<n, n>>
      IN  Tensor(shp, [k \in 1..Numel(shp) |-> entry(Unravel(k - 1, shp))])

\* _eval_covar_matrix(covar_factor, log_var); var stands for log_var.exp().
EvalCovarMatrix(covar_factor, var) ==
  Add(Matmul(covar_factor, Transpose(covar_factor, 0, 1)), Diag(var))

\* The covar_factor parameter (n_tasks x rank) written from a seed.
FactorOf(n_tasks, rank, seed) ==
  LET entry(idx) == seed + idx[1] + 1
  IN  LET shp == <<n_tasks, rank>>
      IN  Tensor(shp, [k \in 1..Numel(shp) |-> entry(Unravel(k - 1, shp))])

\* IndexKernel(n_tasks, rank): the task covariance kernel.
IndexKernelInit(n_tasks, rank, seed) ==
  IF n_tasks < 1 \/ rank > n_tasks THEN Error("configuration")
  ELSE [kind         |-> "IndexKernel",
        covar_factor |-> FactorOf(n_tasks, rank, seed),
        var          |-> Tensor(<<n_tasks>>, [k \in 1..n_tasks |-> 1])]

\* task_covar_module(indices).evaluate_kernel(): the task covariance at the
\* given task indices, as a lazy matrix.
IndexKernelCall(ik, indices) ==
  LET C == EvalCovarMatrix(ik.covar_factor, ik.var)
      entry(idx) == At(C, <<indices[idx[1] + 1], indices[idx[2] + 1]>>)
  IN  NonLazyVariable(LET shp == <<Len(indices), Len(indices)>>
      IN  Tensor(shp, [k \in 1..Numel(shp) |-> entry(Unravel(k - 1, shp))]))

\* torch.range(lo, hi).long(): lo, lo + 1, ..., hi.
TorchRange(lo, hi) == [k \in 1..(hi - lo + 1) |-> lo + k - 1]

\* A user data kernel that returns a dense tensor: the plain dot products of
\* the rows of x1 and x2, of shape (n1, n2) or (b, n1, n2).
DotKernel == [kind |-> "DotKernel", active_dims |-> None]

DotForward(a, b) ==
  LET r == Len(b.shape)
  IN  Matmul(a, Transpose(b, r - 2, r - 1))

\* data_covar_module.forward(x1, x2)
DataForward(module, a, b) ==
  IF module.kind = "LinearKernel" THEN LinearForward(module, a, b)
  ELSE DotForward(a, b)

\* A MultitaskKernel.__init__ that makes the task parameters itself, without
\* the IndexKernel constructor.
MultitaskInitUnchecked(data_covar_module, n_tasks, rank, seed) ==
  [kind              |-> "MultitaskKernel",
   active_dims       |-> None,
   task_covar_module |->
     [kind         |-> "IndexKernel",
      covar_factor |-> FactorOf(n_tasks, rank, seed),
      var          |-> Tensor(<<n_tasks>>, [k \in 1..n_tasks |-> 1])],
   data_covar_module |-> data_covar_module,
   n_tasks           |-> n_tasks]

\* MultitaskKernel.__init__
MultitaskInit(data_covar_module, n_tasks, rank, seed) ==
  LET base == KernelInit(None)
      task_covar_module == IndexKernelInit(n_tasks, rank, seed)
  IN  IF IsError(task_covar_module) THEN task_covar_module
      ELSE [kind              |-> "MultitaskKernel",
            active_dims       |-> base.active_dims,
            task_covar_module |-> task_covar_module,
            data_covar_module |-> data_covar_module,
            n_tasks           |-> n_tasks]

\* The factors in the other order.
KronFactorsSwapped(covar_i, covar_x) == <<covar_x, covar_i>>

\* The factors of the Kronecker product, in the order forward passes them.
KronFactors(covar_i, covar_x) == <<covar_i, covar_x>>

\* MultitaskKernel.forward(x1, x2): the value returned and the collaborators
\* called on the way.
MultitaskForward(self, a, b) ==
  LET task_indices == TorchRange(0, self.n_tasks - 1)
      covar_i == IndexKernelCall(self.task_covar_module, task_indices)
      raw     == DataForward(self.data_covar_module, a, b)
  IN  IF IsError(raw)
      THEN [value |-> raw,
            calls |-> <<"print", "task_covar_module", "data_covar_module.forward">>]
      ELSE LET squeezed == IF raw.kind = "lazy" THEN LazySqueeze0(raw)
                           ELSE Squeeze0(raw)
               covar_x  == IF squeezed.kind # "lazy" THEN NonLazyVariable(squeezed)
                           ELSE squeezed
               f        == KronFactors(covar_i, covar_x)
           IN  [value |-> KroneckerProductLazyVariable(f[1], f[2]),
                calls |-> <<"print", "task_covar_module",
                            "data_covar_module.forward", "print",
                            "KroneckerProductLazyVariable", "print">>]

\* x.size(-2)
Rows(t) == t.shape[Len(t.shape) - 1]

\* A size that reads both row counts from x1.
MultitaskSizeSquare(self, a, b) ==
  IF Len(a.shape) = 3
  THEN [value |-> <<a.shape[1], self.n_tasks * Rows(a), self.n_tasks * Rows(a)>>,
        calls |-> <<>>]
  ELSE [value |-> <<self.n_tasks * Rows(a), self.n_tasks * Rows(a)>>,
        calls |-> <<>>]

\* MultitaskKernel.size(x1, x2)
MultitaskSize(self, a, b) ==
  IF Len(a.shape) = 3
  THEN [value |-> <<a.shape[1], self.n_tasks * Rows(a), self.n_tasks * Rows(b)>>,
        calls |-> <<>>]
  ELSE [value |-> <<self.n_tasks * Rows(a), self.n_tasks * Rows(b)>>,
        calls |-> <<>>]

\* ------------------------------------------------------------- environment
\* The input tensor of a shape with the entry pattern of a seed.
Pattern(shape, seed) ==
  Tensor(shape, [k \in 1..Numel(shape) |-> (seed * k + k - 1) % 3])

\* No batch dimension (2-dimensional inputs) or one (3-dimensional inputs).
Batches == {<<>>} \cup {<<b>> : b \in 0..MaxBatch}

InputPairs(widths) ==
  {<<Pattern(B \o <<n1, w1>>, s1), Pattern(B \o <<n2, w2>>, s2)>> :
     B \in Batches, n1 \in 0..MaxN, n2 \in 0..MaxN,
     w1 \in widths, w2 \in widths, s1 \in InputSeeds, s2 \in InputSeeds}

\* The offset parameter (1, 1, d) written from a seed.
OffsetOf(d, seed) == Tensor(<<1, 1, d>>, [k \in 1..d |-> seed * k])

\* The LinearKernel with its parameters written by the optimizer.
WithParams(k, p) ==
  [k EXCEPT !.variance = Tensor(<<1>>, <<p[1]>>),
            !.offset = OffsetOf(k.offset.shape[3], p[2])]

\* The input widths the caller tries on a kernel.
WidthsFor(k) ==
  IF k.kind = "LinearKernel" THEN 1..(MaxDim + 1)
  ELSE IF k.data_covar_module.kind = "LinearKernel"
       THEN {k.data_covar_module.offset.shape[3]}
       ELSE {MaxDim}

\* The active_dims arguments tried: none, or the list [0, 1].
ActiveDimsChoices == {None, List(<<0, 1>>)}

\* The data kernels a MultitaskKernel is built over.
DataModules == {DotKernel, LinearInit(MaxDim, None)}

VARIABLES
  kernel,   \* the kernel object under test, None before construction
  cargs,    \* the arguments of the last constructor call
  x1, x2,   \* the caller's input tensors, None when there are none
  out,      \* what the last call returned or raised
  calls,    \* the collaborators the last call invoked, in order
  last      \* the last operation

vars == <<kernel, cargs, x1, x2, out, calls, last>>

Init ==
  /\ kernel = None
  /\ cargs = None
  /\ x1 = None
  /\ x2 = None
  /\ out = None
  /\ calls = <<>>
  /\ last = "start"

ConstructLinear ==
  /\ kernel = None
  /\ \E num_dimensions \in (-1)..MaxDim, active_dims \in ActiveDimsChoices :
       LET k == LinearInit(num_dimensions, active_dims)
       IN  /\ cargs' = [num_dimensions |-> num_dimensions,
                        active_dims |-> active_dims]
           /\ out' = k
           /\ kernel' = IF IsError(k) THEN None ELSE k
  /\ last' = "LinearKernel.__init__"
  /\ calls' = <<>>
  /\ UNCHANGED <<x1, x2>>

ConstructMultitask ==
  /\ kernel = None
  /\ \E data \in DataModules, n_tasks \in 0..MaxTasks, seed \in TaskSeeds :
     \E rank \in {1, n_tasks, n_tasks + 1} :
       LET k == MultitaskInit(data, n_tasks, rank, seed)
       IN  /\ cargs' = [n_tasks |-> n_tasks, rank |-> rank]
           /\ out' = k
           /\ kernel' = IF IsError(k) THEN None ELSE k
  /\ last' = "MultitaskKernel.__init__"
  /\ calls' = <<>>
  /\ UNCHANGED <<x1, x2>>

\* The caller makes the two input tensors of the next call.
Supply ==
  /\ kernel # None
  /\ x1 = None
  /\ \E pair \in InputPairs(WidthsFor(kernel)) :
       /\ x1' = pair[1]
       /\ x2' = pair[2]
  /\ out' = None
  /\ calls' = <<>>
  /\ last' = "inputs"
  /\ UNCHANGED <<kernel, cargs>>

\* A forward that centers x1 in place (x1 -= self.offset).
LinearForwardCallInPlace ==
  /\ kernel.kind = "LinearKernel"
  /\ x1 # None
  /\ out' = LinearForward(kernel, x1, x2)
  /\ calls' = <<>>
  /\ last' = "LinearKernel.forward"
  /\ x1' = LET c == Sub(x1, kernel.offset) IN IF IsError(c) THEN x1 ELSE c
  /\ UNCHANGED <<kernel, cargs, x2>>

LinearForwardCall ==
  /\ kernel.kind = "LinearKernel"
  /\ x1 # None
  /\ out' = LinearForward(kernel, x1, x2)
  /\ calls' = <<>>
  /\ last' = "LinearKernel.forward"
  /\ UNCHANGED <<kernel, cargs, x1, x2>>

MultitaskForwardCall ==
  /\ kernel.kind = "MultitaskKernel"
  /\ x1 # None
  /\ LET r == MultitaskForward(kernel, x1, x2)
     IN  /\ out' = r.value
         /\ calls' = r.calls
  /\ last' = "MultitaskKernel.forward"
  /\ UNCHANGED <<kernel, cargs, x1, x2>>

MultitaskSizeCall ==
  /\ kernel.kind = "MultitaskKernel"
  /\ x1 # None
  /\ LET r == MultitaskSize(kernel, x1, x2)
     IN  /\ out' = [kind |-> "size", shape |-> r.value]
         /\ calls' = r.calls
  /\ last' = "MultitaskKernel.size"
  /\ UNCHANGED <<kernel, cargs, x1, x2>>

\* The external optimizer writes the parameters between two calls.
OptimizerStep ==
  /\ kernel # None
  /\ \E p \in ParamSettings, seed \in TaskSeeds :
       kernel' =
         IF kernel.kind = "LinearKernel" THEN WithParams(kernel, p)
         ELSE LET ik == kernel.task_covar_module
                  dk == kernel.data_covar_module
              IN  [kernel EXCEPT
                     !.task_covar_module.covar_factor =
                        FactorOf(ik.covar_factor.shape[1],
                                 ik.covar_factor.shape[2], seed),
                     !.data_covar_module =
                        IF dk.kind = "LinearKernel" THEN WithParams(dk, p)
                        ELSE dk]
  /\ x1' = None
  /\ x2' = None
  /\ out' = None
  /\ calls' = <<>>
  /\ last' = "optimizer"
  /\ UNCHANGED cargs

Next ==
  \/ ConstructLinear
  \/ ConstructMultitask
  \/ Supply
  \/ LinearForwardCall
  \/ MultitaskForwardCall
  \/ MultitaskSizeCall
  \/ OptimizerStep

Spec == Init /\ [][Next]_vars

\* ------------------------------------------------------------------ claims
\* x.size(-1)
Width(t) == t.shape[Len(t.shape)]

AfterLinearForward == last = "LinearKernel.forward"

\* Entry c (from 1) of row i (from 0) of matrix k (from 0) of the input t.
Coord(t, k, i, c) == t.data[(k * Rows(t) + i) * Width(t) + c]

\* The number of matrices an input holds: its batch size, 1 without a batch.
BatchCount(t) == IF Len(t.shape) = 3 THEN t.shape[1] ELSE 1

\* C1: LinearKernel.forward builds the root-product form of x1 - offset if and
\* only if x1 and x2 have the same shape and the same entries, and the
\* matmul-product form of x1 - offset and the transpose of x2 - offset in
\* every other case.
C1_RootIffEqual ==
  (AfterLinearForward /\ ~IsError(out)) =>
    LET same == x1.shape = x2.shape /\ x1.data = x2.data
        prod == out.args[1]
        c1   == Sub(x1, kernel.offset)
        c2   == Sub(x2, kernel.offset)
    IN  /\ same => prod.form = "root" /\ prod.args = <<c1>>
        /\ ~same => /\ prod.form = "matmul"
                    /\ prod.args =
                         <<c1, Transpose(c2, Len(c2.shape) - 2, Len(c2.shape) - 1)>>

\* C1 witness: two inputs of one shape that agree in one entry and differ in
\* another went through forward and came out in matmul-product form.
C1_Witness ==
  /\ AfterLinearForward
  /\ ~IsError(out)
  /\ x1.shape = x2.shape
  /\ \E k \in 1..Len(x1.data) : x1.data[k] = x2.data[k]
  /\ \E k \in 1..Len(x1.data) : x1.data[k] # x2.data[k]
  /\ out.args[1].form = "matmul"

\* C2: for inputs whose last dimension is num_dimensions, the materialized
\* output of LinearKernel.forward holds dot(x1[i] - o, x2[j] - o) + v at row
\* i, column j (of every matrix of the batch), in both branches.
C2_Entries ==
  ( /\ AfterLinearForward
    /\ ~IsError(out)
    /\ cargs.num_dimensions >= 1
    /\ Width(x1) = cargs.num_dimensions
    /\ Width(x2) = cargs.num_dimensions ) =>
    LET M  == Evaluate(out)
        d  == cargs.num_dimensions
        o  == kernel.offset.data
        v  == kernel.variance.data[1]
        n1 == Rows(x1)
        n2 == Rows(x2)
    IN  /\ Numel(M.shape) = BatchCount(x1) * n1 * n2
        /\ \A k \in 0..(BatchCount(x1) - 1), i \in 0..(n1 - 1), j \in 0..(n2 - 1) :
             M.data[(k * n1 + i) * n2 + j + 1] =
               SumSeq([c \in 1..d |->
                 (Coord(x1, k, i, c) - o[c]) * (Coord(x2, k, j, c) - o[c])]) + v

\* C2 witness: a forward call on x1 = x2 with two rows of width
\* num_dimensions = 2, under a nonzero offset and a nonzero variance.
C2_Witness ==
  /\ AfterLinearForward
  /\ ~IsError(out)
  /\ cargs.num_dimensions = 2
  /\ Width(x1) = 2
  /\ x1 = x2
  /\ Rows(x1) = 2
  /\ kernel.variance.data[1] # 0
  /\ kernel.offset.data[1] # 0

\* Some input's last dimension differs from num_dimensions.
WidthMismatch ==
  Width(x1) # cargs.num_dimensions \/ Width(x2) # cargs.num_dimensions

\* C3 as stated: every forward call with an input whose last dimension
\* differs from num_dimensions >= 1 fails with a dimension-mismatch error.
C3_AlwaysRejected ==
  (AfterLinearForward /\ cargs.num_dimensions >= 1 /\ WidthMismatch) =>
    IsError(out) /\ out.what = "dimension-mismatch"

\* C3 amended: a forward call with an input whose last dimension w differs
\* from num_dimensions = d fails with a dimension-mismatch error when neither
\* w nor d is 1; when each input's width is d or 1 the centering subtraction
\* broadcasts and forward returns a matrix.
C3_RejectedUnlessBroadcast ==
  (AfterLinearForward /\ cargs.num_dimensions >= 1) =>
    LET d == cargs.num_dimensions
    IN  /\ ( /\ d # 1
             /\ \/ Width(x1) \notin {d, 1}
                \/ Width(x2) \notin {d, 1} ) =>
             IsError(out) /\ out.what = "dimension-mismatch"
        /\ (Width(x1) \in {d, 1} /\ Width(x2) \in {d, 1}) => ~IsError(out)

\* C3 witness: num_dimensions = 2 and a forward call on inputs of width 3.
C3_Witness ==
  /\ AfterLinearForward
  /\ cargs.num_dimensions = 2
  /\ Width(x1) = 3
  /\ Width(x2) = 2
  /\ Rows(x1) > 0
  /\ IsError(out)

\* C4: MultitaskKernel.size(x1, x2) is (n_tasks*n1, n_tasks*n2) for
\* 2-dimensional inputs and (b, n_tasks*n1, n_tasks*n2) for 3-dimensional
\* ones, and calls neither forward nor the data kernel nor the task kernel.
C4_Size ==
  last = "MultitaskKernel.size" =>
    LET t == cargs.n_tasks
    IN  /\ Len(x1.shape) = 2 => out.shape = <<t * Rows(x1), t * Rows(x2)>>
        /\ Len(x1.shape) = 3 =>
             out.shape = <<x1.shape[1], t * Rows(x1), t * Rows(x2)>>
        /\ calls = <<>>

\* C4 witness: size was called with n_tasks = 2 on 3-dimensional inputs of 1
\* and 2 rows.
C4_Witness ==
  /\ last = "MultitaskKernel.size"
  /\ cargs.n_tasks = 2
  /\ Len(x1.shape) = 3
  /\ Rows(x1) = 1
  /\ Rows(x2) = 2

AfterMultitaskForward == last = "MultitaskKernel.forward"

\* What the data kernel returns on the current inputs.
DataCovar == DataForward(kernel.data_covar_module, x1, x2)

\* The shape the data covariance has when it follows the rank of the inputs:
\* (n1, n2), or (b, n1, n2) for 3-dimensional inputs.
PlainDataShape == BatchOf(x1.shape) \o <<Rows(x1), Rows(x2)>>

ShapeOf(r) == IF r.kind = "lazy" THEN LazySize(r) ELSE r.shape

\* C5 as stated: for every n_tasks, n1, n2 >= 1 and 2-dimensional inputs or
\* 3-dimensional inputs of any batch size b >= 1, when the data kernel returns
\* a covariance of shape (n1, n2) or (b, n1, n2), the matrix forward returns
\* has the shape size declares.
C5_SizeIsForwardShape ==
  ( /\ AfterMultitaskForward
    /\ Rows(x1) >= 1
    /\ Rows(x2) >= 1
    /\ BatchCount(x1) >= 1
    /\ ~IsError(DataCovar)
    /\ ShapeOf(DataCovar) = PlainDataShape ) =>
    /\ ~IsError(out)
    /\ LazySize(out) = MultitaskSize(kernel, x1, x2).value

\* C6: whenever forward returns a matrix, its materialization is the Kronecker
\* product of the materialized task covariance on the indices 0..n_tasks-1
\* with the materialized data covariance, task factor on the left:
\* result[a*n1 + i, b*n2 + j] = C_task[a, b] * C_data[i, j], for every matrix
\* of a batched data covariance.
C6_Kronecker ==
  (AfterMultitaskForward /\ ~IsError(out)) =>
    LET t   == cargs.n_tasks
        Ct  == Evaluate(IndexKernelCall(kernel.task_covar_module,
                                        [k \in 1..t |-> k - 1]))
        D   == IF DataCovar.kind = "lazy" THEN Evaluate(DataCovar) ELSE DataCovar
        n1  == D.shape[Len(D.shape) - 1]
        n2  == D.shape[Len(D.shape)]
        nb  == IF n1 * n2 = 0 THEN 0 ELSE Numel(D.shape) \div (n1 * n2)
        M   == Evaluate(out)
    IN  /\ Ct.shape = <<t, t>>
        /\ M.shape[Len(M.shape) - 1] = t * n1
        /\ M.shape[Len(M.shape)] = t * n2
        /\ Numel(M.shape) = t * t * Numel(D.shape)
        /\ \A k \in 0..(nb - 1), a \in 0..(t - 1), b \in 0..(t - 1),
              i \in 0..(n1 - 1), j \in 0..(n2 - 1) :
             M.data[k * (t * n1 * t * n2) + (a * n1 + i) * (t * n2) + (b * n2 + j) + 1]
               = Ct.data[a * t + b + 1] * D.data[k * n1 * n2 + i * n2 + j + 1]

\* C6 witness: forward returned a matrix for n_tasks = 2 over a 2 x 2 data
\* covariance with a nonzero entry.
C6_Witness ==
  /\ AfterMultitaskForward
  /\ ~IsError(out)
  /\ cargs.n_tasks = 2
  /\ Len(x1.shape) = 2
  /\ Rows(x1) = 2
  /\ Rows(x2) = 2
  /\ x1 # x2
  /\ \E k \in 1..4 : Evaluate(out).data[k] # 0

\* C7 as stated: for inputs (..., n1, d) and (..., n2, d) with d =
\* num_dimensions, forward returns a lazy matrix whose shape is the batch
\* dimensions of the inputs followed by (n1, n2).
C7_ShapeKeepsInputBatch ==
  ( /\ AfterLinearForward
    /\ cargs.num_dimensions >= 1
    /\ Width(x1) = cargs.num_dimensions
    /\ Width(x2) = cargs.num_dimensions ) =>
    /\ ~IsError(out)
    /\ LazySize(out) = BatchOf(x1.shape) \o <<Rows(x1), Rows(x2)>>

\* C7 amended: for 3-dimensional inputs (b, n1, d) and (b, n2, d) with d =
\* num_dimensions, zero-length n1, n2 and b included, forward completes and
\* returns a lazy matrix of shape (b, n1, n2); for 2-dimensional inputs
\* (n1, d) and (n2, d) it returns one of shape (1, n1, n2).
C7_ShapeOfRank3 ==
  ( /\ AfterLinearForward
    /\ cargs.num_dimensions >= 1
    /\ Width(x1) = cargs.num_dimensions
    /\ Width(x2) = cargs.num_dimensions ) =>
    /\ ~IsError(out)
    /\ Len(x1.shape) = 3 => LazySize(out) = <<x1.shape[1], Rows(x1), Rows(x2)>>
    /\ Len(x1.shape) = 2 => LazySize(out) = <<1, Rows(x1), Rows(x2)>>

\* C7 witness: a forward call on inputs of width num_dimensions with a
\* zero-length batch, x2 with rows and x1 with a different number of rows.
C7_Witness ==
  /\ AfterLinearForward
  /\ cargs.num_dimensions = 2
  /\ Width(x1) = 2
  /\ Width(x2) = 2
  /\ Len(x1.shape) = 3
  /\ x1.shape[1] = 0
  /\ Rows(x1) = 1
  /\ Rows(x2) = 2
  /\ ~IsError(out)

\* C8 as stated: constructing a LinearKernel with an active_dims list whose
\* length differs from num_dimensions, or with a non-positive num_dimensions,
\* raises an error and yields no kernel object.
C8_BadConfigRejected ==
  ( /\ last = "LinearKernel.__init__"
    /\ \/ cargs.num_dimensions <= 0
       \/ /\ cargs.active_dims # None
          /\ Len(cargs.active_dims.items) # cargs.num_dimensions ) =>
    IsError(out) /\ kernel = None

CallOps ==
  {"LinearKernel.forward", "MultitaskKernel.forward", "MultitaskKernel.size"}

\* C10: a forward or size call changes neither the kernel (variance, offset,
\* n_tasks, the task and data sub-kernels) nor its input tensors, it returns a
\* result, and the same call made again with nothing in between returns an
\* equal result.
C10_CallsArePure ==
  [][ last' \in CallOps =>
        /\ kernel' = kernel
        /\ x1' = x1
        /\ x2' = x2
        /\ out' # None
        /\ last' = last => out' = out ]_vars

\* C10 witness: a forward call returned a matrix after the optimizer had
\* written the parameters.
C10_Witness ==
  /\ AfterLinearForward
  /\ ~IsError(out)
  /\ kernel.variance.data[1] # 0
  /\ Rows(x1) = 2
====
